---- MODULE Spec2Model ----
(***************************************************************************)
(* Model of the viklyst ML subsystem: ml/train.py (feature builder,        *)
(* walk-forward training, artifact save) and ml/serve.py (artifact lookup, *)
(* feature builder, /predict).                                             *)
(*                                                                         *)
(* Numbers are exact: a value is <<kind, n, d>> with kind "num" (the       *)
(* rational n/d in lowest terms), "sqrt" (the square root of n/d), "inf"   *)
(* (float +inf) or "nan" (float NaN / pandas missing value).               *)
(* Strings that the code globs, sorts or rewrites are sequences of         *)
(* one-character strings.                                                  *)
(***************************************************************************)
EXTENDS Integers, Sequences, FiniteSets, TLC

VARIABLES
    raw,          \* SpecFeat: the bar frame handed to the feature builders
    feat_train,   \* SpecFeat: result of train.build_features(raw)
    feat_serve,   \* SpecFeat: result of serve.engineer_features(raw)
    built,        \* SpecFeat: TRUE once build_features has returned
    served,       \* SpecFeat: TRUE once engineer_features has returned
    n_samples,    \* SpecSplit: len(X) handed to TimeSeriesSplit.split
    fold,         \* SpecSplit: number of folds the loop has produced so far
    train_idx,    \* SpecSplit: train indices of the current fold
    test_idx,     \* SpecSplit: test indices of the current fold
    prev_train,   \* SpecSplit: train indices of the previous fold
    prev_test,    \* SpecSplit: test indices of the previous fold
    split_err,    \* SpecSplit: TRUE when split raised ValueError
    clock,        \* Spec: seconds elapsed on the UTC wall clock
    models_dir,   \* Spec: TRUE once the models directory exists
    files,        \* Spec: the models directory, file name -> content
    saves,        \* Spec: history of training runs, indexed by run id
    trun,         \* Spec: run id each training process is executing, 0 if none
    rpc,          \* Spec: position of each /predict request
    rloc          \* Spec: locals and response of each /predict request

featVars == <<raw, feat_train, feat_serve, built, served>>
splitVars == <<n_samples, fold, train_idx, test_idx, prev_train, prev_test, split_err>>
storeVars == <<clock, models_dir, files, saves, trun>>
predVars == <<rpc, rloc>>
vars == <<featVars, splitVars, storeVars, predVars>>

----------------------------------------------------------------------------
(* Bounds *)

MaxBars == 12        \* longest bar sequence handed to the feature builders
MaxRows == 30        \* largest feature-row count handed to the splitter
MaxClock == 1        \* last second the wall clock reaches
MaxRuns == 2         \* training runs started in one behaviour

----------------------------------------------------------------------------
(* Evaluation helpers: bind an operand once, then use the value *)

Let1(v, F(_)) == CHOOSE r \in { F(x) : x \in {v} } : TRUE
Let2(u, v, F(_, _)) == CHOOSE r \in { F(x, y) : x \in {u}, y \in {v} } : TRUE

----------------------------------------------------------------------------
(* Exact arithmetic *)

Abs(x) == IF x < 0 THEN -x ELSE x

RECURSIVE GCD(_, _)
GCD(a, b) == Let2(a, b, LAMBDA x, y : IF y = 0 THEN x ELSE GCD(y, x % y))

NaN == <<"nan", 0, 1>>
PosInf == <<"inf", 1, 1>>

\* the rational n/d (d # 0) in lowest terms with a positive denominator
Num(n, d) ==
    Let2(n, d, LAMBDA x, y :
        Let1(GCD(Abs(x), Abs(y)), LAMBDA g :
            IF y < 0 THEN <<"num", -(x \div g), -(y \div g)>>
            ELSE <<"num", x \div g, y \div g>>))

isna(v) == v[1] = "nan"

FAdd(a, b) ==
    Let2(a, b, LAMBDA x, y :
        IF isna(x) \/ isna(y) THEN NaN
        ELSE IF x[1] = "inf" \/ y[1] = "inf" THEN PosInf
        ELSE Num(x[2] * y[3] + y[2] * x[3], x[3] * y[3]))

FSub(a, b) ==
    Let2(a, b, LAMBDA x, y :
        IF isna(x) \/ isna(y) THEN NaN
        ELSE IF x[1] = "inf" THEN PosInf
        ELSE Num(x[2] * y[3] - y[2] * x[3], x[3] * y[3]))

FMul(a, b) ==
    Let2(a, b, LAMBDA x, y :
        IF isna(x) \/ isna(y) THEN NaN
        ELSE Num(x[2] * y[2], x[3] * y[3]))

\* float division of non-negative operands: x/0 is +inf, 0/0 is NaN
FDiv(a, b) ==
    Let2(a, b, LAMBDA x, y :
        IF isna(x) \/ isna(y) THEN NaN
        ELSE IF y[2] = 0 THEN (IF x[2] = 0 THEN NaN ELSE PosInf)
        ELSE Num(x[2] * y[3], x[3] * y[2]))

FSqrt(a) == Let1(a, LAMBDA x : IF isna(x) THEN NaN ELSE <<"sqrt", x[2], x[3]>>)

Fl(i) == <<"num", i, 1>>

\* a > b on floats; any comparison with NaN is False
FGt(a, b) ==
    Let2(a, b, LAMBDA x, y :
        IF isna(x) \/ isna(y) THEN FALSE
        ELSE x[2] * y[3] > y[2] * x[3])

RECURSIVE Pow2(_)
Pow2(e) == IF e = 0 THEN 1 ELSE 2 * Pow2(e - 1)

----------------------------------------------------------------------------
(* pandas operations used by the feature builders.  A Series is a sequence *)
(* of values, position 1 being the first row; a DataFrame is its ordered   *)
(* column names and its rows, each row a function from column name to      *)
(* value.                                                                  *)

\* Series.shift(k): row t takes the value of row t-k, NaN outside the frame
shift(s, k) ==
    Let1(s, LAMBDA v :
        [t \in 1..Len(v) |-> IF t - k >= 1 /\ t - k <= Len(v) THEN v[t - k] ELSE NaN] \o <<>>)

\* Series / Series, Series - scalar
series_div(a, b) ==
    Let2(a, b, LAMBDA x, y : [t \in 1..Len(x) |-> FDiv(x[t], y[t])] \o <<>>)

series_sub(a, c) ==
    Let1(a, LAMBDA x : [t \in 1..Len(x) |-> FSub(x[t], Fl(c))] \o <<>>)

\* Series.pct_change(): s / s.shift(1) - 1
pct_change(s) == Let1(s, LAMBDA v : series_sub(series_div(v, shift(v, 1)), 1))

RECURSIVE SumRange(_, _, _)
SumRange(s, lo, hi) ==
    IF lo > hi THEN Fl(0) ELSE FAdd(s[lo], SumRange(s, lo + 1, hi))

\* sum over the window of the squared deviations from m
RECURSIVE SumSqDev(_, _, _, _)
SumSqDev(s, m, lo, hi) ==
    IF lo > hi THEN Fl(0)
    ELSE FAdd(Let1(FSub(s[lo], m), LAMBDA dev : FMul(dev, dev)), SumSqDev(s, m, lo + 1, hi))

\* a window is ready when it holds w rows and none of them is missing
WindowReady(s, t, w) ==
    /\ t >= w
    /\ \A i \in (t - w + 1)..t : ~isna(s[i])

\* Series.rolling(w).mean(), min_periods = w
rolling_mean(s, w) ==
    Let1(s, LAMBDA v :
        [t \in 1..Len(v) |->
            IF WindowReady(v, t, w)
            THEN FDiv(SumRange(v, t - w + 1, t), Fl(w))
            ELSE NaN] \o <<>>)

\* Series.rolling(w).std(), min_periods = w, ddof = 1
rolling_std(s, w) ==
    Let1(s, LAMBDA v :
        [t \in 1..Len(v) |->
            IF WindowReady(v, t, w)
            THEN Let1(FDiv(SumRange(v, t - w + 1, t), Fl(w)), LAMBDA m :
                     FSqrt(FDiv(SumSqDev(v, m, t - w + 1, t), Fl(w - 1))))
            ELSE NaN] \o <<>>)

\* df[c]: column c as a Series
Col(df, c) == [t \in 1..Len(df.rows) |-> df.rows[t][c]] \o <<>>

HasColumn(df, c) == \E i \in 1..Len(df.columns) : df.columns[i] = c

\* df[c] = s: add (or replace) a column
SetCol(df, c, s) ==
    Let2(df, s, LAMBDA d, v :
        [columns |-> IF HasColumn(d, c) THEN d.columns ELSE Append(d.columns, c),
         rows    |-> [t \in 1..Len(d.rows) |-> (c :> v[t]) @@ d.rows[t]] \o <<>>])

\* out[c] = F(out): one assignment statement of a feature builder
Assign(out, c, F(_)) == Let1(out, LAMBDA o : SetCol(o, c, F(o)))

RowHasNa(r) == \E k \in DOMAIN r : isna(r[k])

\* DataFrame.dropna().reset_index(drop=True)
dropna(df) ==
    Let1(df, LAMBDA d :
        [columns |-> d.columns, rows |-> SelectSeq(d.rows, LAMBDA r : ~RowHasNa(r))])

RECURSIVE InsertByDay(_, _)
InsertByDay(sorted_rows, row) ==
    Let2(sorted_rows, row, LAMBDA done, r :
        IF done = <<>> THEN <<r>>
        ELSE IF FGt(Head(done)["day"], r["day"]) THEN <<r>> \o done
        ELSE <<Head(done)>> \o InsertByDay(Tail(done), r))

RECURSIVE SortRows(_, _)
SortRows(rows, n) ==
    IF n = 0 THEN <<>> ELSE InsertByDay(SortRows(rows, n - 1), rows[n])

\* DataFrame.sort_values("day").reset_index(drop=True)
sort_values_day(df) ==
    Let1(df, LAMBDA d : [columns |-> d.columns, rows |-> SortRows(d.rows, Len(d.rows))])

----------------------------------------------------------------------------
(* The two feature builders *)

\* (close.shift(-1) > close).astype(int)
target_up_tomorrow(close) ==
    Let1(close, LAMBDA c :
        Let1(shift(c, -1), LAMBDA nxt :
            [t \in 1..Len(c) |-> IF FGt(nxt[t], c[t]) THEN Fl(1) ELSE Fl(0)] \o <<>>))

\* train.py build_features
build_features(df) ==
    LET o1 == Assign(df, "ret_1d", LAMBDA o : pct_change(Col(o, "close")))
        o2 == Assign(o1, "ma_5", LAMBDA o : rolling_mean(Col(o, "close"), 5))
        o3 == Assign(o2, "ma_10", LAMBDA o : rolling_mean(Col(o, "close"), 10))
        o4 == Assign(o3, "close_over_ma5",
                     LAMBDA o : series_sub(series_div(Col(o, "close"), Col(o, "ma_5")), 1))
        o5 == Assign(o4, "close_over_ma10",
                     LAMBDA o : series_sub(series_div(Col(o, "close"), Col(o, "ma_10")), 1))
        o6 == Assign(o5, "vol_5", LAMBDA o : rolling_std(Col(o, "ret_1d"), 5))
        o7 == Assign(o6, "vol_10", LAMBDA o : rolling_std(Col(o, "ret_1d"), 10))
        o8 == Assign(o7, "volchg_1d", LAMBDA o : pct_change(Col(o, "volume")))
        o9 == Assign(o8, "target_up_tomorrow", LAMBDA o : target_up_tomorrow(Col(o, "close")))
    IN  dropna(o9)

\* engineer_features drifted from train.py: vol_10 over a 5-row window
engineer_features_drift(df) ==
    LET o0 == sort_values_day(df)
        o1 == Assign(o0, "ret_1d", LAMBDA o : pct_change(Col(o, "close")))
        o2 == Assign(o1, "ma_5", LAMBDA o : rolling_mean(Col(o, "close"), 5))
        o3 == Assign(o2, "ma_10", LAMBDA o : rolling_mean(Col(o, "close"), 10))
        o4 == Assign(o3, "close_over_ma5",
                     LAMBDA o : series_sub(series_div(Col(o, "close"), Col(o, "ma_5")), 1))
        o5 == Assign(o4, "close_over_ma10",
                     LAMBDA o : series_sub(series_div(Col(o, "close"), Col(o, "ma_10")), 1))
        o6 == Assign(o5, "vol_5", LAMBDA o : rolling_std(Col(o, "ret_1d"), 5))
        o7 == Assign(o6, "vol_10", LAMBDA o : rolling_std(Col(o, "ret_1d"), 5))
        o8 == Assign(o7, "volchg_1d", LAMBDA o : pct_change(Col(o, "volume")))
    IN  dropna(o8)

\* serve.py engineer_features
engineer_features(df) ==
    LET o0 == sort_values_day(df)
        o1 == Assign(o0, "ret_1d", LAMBDA o : pct_change(Col(o, "close")))
        o2 == Assign(o1, "ma_5", LAMBDA o : rolling_mean(Col(o, "close"), 5))
        o3 == Assign(o2, "ma_10", LAMBDA o : rolling_mean(Col(o, "close"), 10))
        o4 == Assign(o3, "close_over_ma5",
                     LAMBDA o : series_sub(series_div(Col(o, "close"), Col(o, "ma_5")), 1))
        o5 == Assign(o4, "close_over_ma10",
                     LAMBDA o : series_sub(series_div(Col(o, "close"), Col(o, "ma_10")), 1))
        o6 == Assign(o5, "vol_5", LAMBDA o : rolling_std(Col(o, "ret_1d"), 5))
        o7 == Assign(o6, "vol_10", LAMBDA o : rolling_std(Col(o, "ret_1d"), 10))
        o8 == Assign(o7, "volchg_1d", LAMBDA o : pct_change(Col(o, "volume")))
    IN  dropna(o8)

----------------------------------------------------------------------------
(* Bar frames *)

BarColumns == <<"day", "close", "volume">>

EmptyFrame == [columns |-> <<>>, rows |-> <<>>]

\* exponent of the first close, leaving room for the steps that follow
StartExp(shape) == IF shape = -1 THEN MaxBars + 2 ELSE 2

\* A frame of n bars, ascending by day.  Closes are powers of two: the
\* exponent moves by `shape` per day, and by s1, s2 on the last two days.
\* Volumes are vpre, and v1, v2 on the last two days.
BarsOf(n, shape, s1, s2, vpre, v1, v2) ==
    LET step(t) == IF t = n THEN s2 ELSE IF t = n - 1 THEN s1 ELSE shape
        expo[t \in 1..n] == IF t = 1 THEN StartExp(shape) ELSE expo[t - 1] + step(t)
        vol(t) == IF t = n THEN v2 ELSE IF t = n - 1 THEN v1 ELSE vpre
    IN  [columns |-> BarColumns,
         rows    |-> [t \in 1..n |->
                        [day |-> Fl(t), close |-> Fl(Pow2(expo[t])), volume |-> Fl(vol(t))]]]

\* A frame of n bars whose close doubles and halves on alternate days
ZigzagBars(n) ==
    [columns |-> BarColumns,
     rows    |-> [t \in 1..n |->
                    [day |-> Fl(t), close |-> Fl(IF t % 2 = 0 THEN 4 ELSE 2), volume |-> Fl(1)]]]

Steps == {-1, 0, 1}
Volumes == {0, 1, 2}

BarFrames ==
    { BarsOf(n, shape, s1, s2, vpre, v1, v2) :
        n \in 0..MaxBars, shape \in Steps, s1 \in Steps, s2 \in Steps,
        vpre \in {0, 1}, v1 \in Volumes, v2 \in Volumes }

----------------------------------------------------------------------------
(* train.py: walk-forward training *)

n_splits == 5

\* TimeSeriesSplit.split raises ValueError when n_folds = n_splits + 1 > n_samples
split_raises(n) == n_splits + 1 > n

\* folds with the test window starting one row late, so that the train
\* slice reaches into the test window
TimeSeriesSplit_leaky(n) ==
    LET test_size == n \div (n_splits + 1)
    IN  [k \in 1..n_splits |->
          LET test_start == n - n_splits * test_size + (k - 1) * test_size
          IN  [train |-> 0..test_start,
               test  |-> test_start..(test_start + test_size - 1)]]

\* TimeSeriesSplit(n_splits=5).split(X) for len(X) = n: fold k trains on
\* indices[:test_start] and tests on indices[test_start:test_start+test_size]
TimeSeriesSplit(n) ==
    LET test_size == n \div (n_splits + 1)
    IN  [k \in 1..n_splits |->
          LET test_start == n - n_splits * test_size + (k - 1) * test_size
          IN  [train |-> 0..(test_start - 1),
               test  |-> test_start..(test_start + test_size - 1)]]

\* feature_cols of train.py main
feature_cols ==
    <<"ret_1d", "close_over_ma5", "close_over_ma10", "vol_5", "vol_10", "volchg_1d">>

\* pipeline.fit(X, y) on the rows idx (0-based): the scaler rejects
\* non-finite input and the classifier needs two classes in y
fit_ok(df_feat, idx) ==
    /\ \A i \in idx : \A c \in 1..Len(feature_cols) :
           df_feat.rows[i + 1][feature_cols[c]][1] \in {"num", "sqrt"}
    /\ Cardinality({ df_feat.rows[i + 1]["target_up_tomorrow"] : i \in idx }) >= 2

\* train_timeseries_model: "ok" when every fold and the final fit succeed
train_timeseries_model(df_feat) ==
    LET n == Len(df_feat.rows)
    IN  IF split_raises(n) THEN "ValueError"
        ELSE IF \E k \in 1..n_splits : ~fit_ok(df_feat, TimeSeriesSplit(n)[k].train)
             THEN "ValueError"
        ELSE IF ~fit_ok(df_feat, 0..(n - 1)) THEN "ValueError"
        ELSE "ok"

\* answers of the bar source to a training run
TrainResponses ==
    { [status |-> 503, data |-> EmptyFrame],
      [status |-> 200, data |-> EmptyFrame],
      [status |-> 200, data |-> BarsOf(5, 1, 1, 1, 1, 1, 1)],
      [status |-> 200, data |-> ZigzagBars(18)] }

\* train.py fetch_daily_bars: raise_for_status rejects a 4xx/5xx answer, an
\* empty list is rejected, else the frame sorted by day
fetch_daily_bars(resp) ==
    IF resp.status >= 400 THEN [raised |-> "HTTPError", df |-> EmptyFrame]
    ELSE IF resp.data.rows = <<>> THEN [raised |-> "ValueError", df |-> EmptyFrame]
    ELSE [raised |-> "", df |-> sort_values_day(resp.data)]

\* the frames fetch_daily_bars returns for the answers above
TrainFrames ==
    { fetch_daily_bars(r).df : r \in { x \in TrainResponses : fetch_daily_bars(x).raised = "" } }

\* train.py main, feat = build_features(raw) and
\* result = train_timeseries_model(feat, feature_cols), for each fetched frame
TrainOutcome == [b \in TrainFrames |-> train_timeseries_model(build_features(b))]

----------------------------------------------------------------------------
(* Strings: sequences of one-character strings, ordered by code point *)

Alphabet ==
    <<".", "0", "1", "2", "3", "4", "5", "6", "7", "8", "9",
      "A", "B", "C", "D", "E", "F", "G", "H", "I", "J", "K", "L", "M",
      "N", "O", "P", "Q", "R", "S", "T", "U", "V", "W", "X", "Y", "Z",
      "_",
      "a", "b", "c", "d", "e", "f", "g", "h", "i", "j", "k", "l", "m",
      "n", "o", "p", "q", "r", "s", "t", "u", "v", "w", "x", "y", "z">>

Ord(c) == CHOOSE i \in 1..Len(Alphabet) : Alphabet[i] = c

\* str.upper()
upper(str) ==
    [i \in 1..Len(str) |->
        IF Ord(str[i]) >= Ord("a") /\ Ord(str[i]) <= Ord("z")
        THEN Alphabet[Ord(str[i]) - Ord("a") + Ord("A")]
        ELSE str[i]]

\* a < b on Python strings
RECURSIVE StrLt(_, _)
StrLt(a, b) ==
    IF b = <<>> THEN FALSE
    ELSE IF a = <<>> THEN TRUE
    ELSE IF Head(a) = Head(b) THEN StrLt(Tail(a), Tail(b))
    ELSE Ord(Head(a)) < Ord(Head(b))

\* sorted(S) for a set of strings
RECURSIVE sorted(_)
sorted(S) ==
    Let1(S, LAMBDA T :
        IF T = {} THEN <<>>
        ELSE Let1(CHOOSE x \in T : \A y \in T : ~StrLt(y, x), LAMBDA m :
                 <<m>> \o sorted(T \ {m})))

\* fnmatch of a name against a pattern whose only wildcard is "*"
RECURSIVE fnmatch(_, _)
fnmatch(name, pat) ==
    IF pat = <<>> THEN name = <<>>
    ELSE IF Head(pat) = "*"
         THEN fnmatch(name, Tail(pat)) \/ (name # <<>> /\ fnmatch(Tail(name), pat))
    ELSE name # <<>> /\ Head(name) = Head(pat) /\ fnmatch(Tail(name), Tail(pat))

\* str.replace(old, new)
RECURSIVE replace(_, _, _)
replace(str, old, new) ==
    IF Len(str) < Len(old) THEN str
    ELSE IF SubSeq(str, 1, Len(old)) = old
         THEN new \o replace(SubSeq(str, Len(old) + 1, Len(str)), old, new)
    ELSE <<Head(str)>> \o replace(Tail(str), old, new)

Digit(i) == Alphabet[Ord("0") + i]

TwoDigits(i) == <<Digit(i \div 10), Digit(i % 10)>>

\* datetime.utcnow().strftime("%Y%m%d_%H%M%S"), t seconds into 2025-01-01
strftime(t) ==
    <<"2", "0", "2", "5", "0", "1", "0", "1", "_">>
    \o TwoDigits(t \div 3600) \o TwoDigits((t \div 60) % 60) \o TwoDigits(t % 60)

ModelSuffix == <<"_", "l", "o", "g", "r", "e", "g", ".", "j", "o", "b", "l", "i", "b">>
MetaSuffix == <<"_", "m", "e", "t", "a", ".", "j", "s", "o", "n">>

----------------------------------------------------------------------------
(* The artifact store: file names are relative to the models directory *)

\* model_path / meta_path of train.py main
model_path_of(symbol, ts) == upper(symbol) \o <<"_">> \o ts \o ModelSuffix
meta_path_of(symbol, ts) == upper(symbol) \o <<"_">> \o ts \o MetaSuffix

\* the meta dict of train.py main, as (key, value) pairs in insertion order
meta_of(symbol) ==
    << <<"symbol", upper(symbol)>>,
       <<"from", "2025-01-01">>,
       <<"to", "2026-01-03">>,
       <<"feature_cols", feature_cols>>,
       <<"cv_accuracy_mean", "cv_accuracy_mean">>,
       <<"cv_accuracy_std", "cv_accuracy_std">>,
       <<"notes", "notes">> >>

\* a meta dict that stores the schema under the key serve.py reads
meta_with_schema(symbol, schema) ==
    << <<"symbol", upper(symbol)>>,
       <<"from", "2025-01-01">>,
       <<"to", "2026-01-03">>,
       <<"feature_columns", schema>>,
       <<"cv_accuracy_mean", "cv_accuracy_mean">>,
       <<"cv_accuracy_std", "cv_accuracy_std">>,
       <<"notes", "notes">> >>

\* json.load of what json.dump wrote: the object as a dict
json_load(doc) ==
    [k \in { doc[i][1] : i \in 1..Len(doc) } |->
        LET last == CHOOSE i \in 1..Len(doc) :
                       doc[i][1] = k /\ \A j \in (i + 1)..Len(doc) : doc[j][1] # k
        IN  doc[last][2]]

\* the content of a file: the run that wrote it last (0 for a file that was
\* there before any run), the JSON document or the number of features of the
\* pickled pipeline, and whether the writer has closed the file
Content(save, doc, n_features, complete) ==
    [save |-> save, doc |-> doc, n_features |-> n_features, complete |-> complete]

\* a file that has been opened for writing and not yet closed: it exists and
\* holds nothing that can be loaded
Truncated(save) == Content(save, <<>>, 0, FALSE)

\* a pickled pipeline fitted on n_features columns
ModelFile(save, n_features) == Content(save, <<>>, n_features, TRUE)

\* a metadata file holding the JSON document doc
MetaFile(save, doc) == Content(save, doc, 0, TRUE)

\* open(path, "w") / joblib.dump: create or truncate the file
write_file(fs, path, content) ==
    [f \in DOMAIN fs \cup {path} |-> IF f = path THEN content ELSE fs[f]]

exists(fs, path) == path \in DOMAIN fs

\* glob.glob(os.path.join(MODELS_DIR, pattern))
glob(fs, pat) == { f \in DOMAIN fs : fnmatch(f, pat) }

\* serve.py latest_model_for_symbol: the candidate list
latest_candidates(fs, symbol) ==
    glob(fs, upper(symbol) \o <<"_", "*">> \o ModelSuffix)

\* serve.py latest_model_for_symbol: candidates[-1]
latest_model_for_symbol(fs, symbol) ==
    LET candidates == sorted(latest_candidates(fs, symbol))
    IN  candidates[Len(candidates)]

----------------------------------------------------------------------------
(* serve.py: /predict *)

\* the response of a /predict request; status 0 while none has been sent
Outcome(status, kind, path, missing, as_of, x) ==
    [status |-> status, kind |-> kind, path |-> path, missing |-> missing,
     as_of |-> as_of, x |-> x]

NoOutcome == Outcome(0, "", <<>>, <<>>, 0, <<>>)

\* raise HTTPException(status_code=status, detail=kind ...)
HTTPException(status, kind, path, missing) == Outcome(status, kind, path, missing, 0, <<>>)

\* pick_latest_row_features that stops at the first absent column
pick_latest_row_features_first(df_feat, cols) ==
    Let2(SelectSeq(cols, LAMBDA c : ~HasColumn(df_feat, c)), df_feat.rows[Len(df_feat.rows)],
         LAMBDA missing, last :
            IF missing # <<>>
            THEN [raised |-> TRUE, missing |-> <<Head(missing)>>, as_of |-> 0, x |-> <<>>]
            ELSE [raised |-> FALSE, missing |-> <<>>, as_of |-> last["day"][2],
                  x |-> [i \in 1..Len(cols) |-> last[cols[i]]] \o <<>>])

\* serve.py pick_latest_row_features: raises naming the schema columns that
\* are not columns of df_feat, else returns the as-of day and the vector
pick_latest_row_features(df_feat, cols) ==
    Let2(SelectSeq(cols, LAMBDA c : ~HasColumn(df_feat, c)), df_feat.rows[Len(df_feat.rows)],
         LAMBDA missing, last :
            IF missing # <<>>
            THEN [raised |-> TRUE, missing |-> missing, as_of |-> 0, x |-> <<>>]
            ELSE [raised |-> FALSE, missing |-> <<>>, as_of |-> last["day"][2],
                  x |-> [i \in 1..Len(cols) |-> last[cols[i]]] \o <<>>])

\* serve.py load_meta_for_model: the path of the companion metadata file
meta_path_for(model_path) == replace(model_path, ModelSuffix, MetaSuffix)

\* meta.get("feature_columns") is None or empty
schema_missing(meta) ==
    \/ "feature_columns" \notin DOMAIN meta
    \/ meta["feature_columns"] = <<>>

\* serve.py fetch_bars: the error it raises, or the frame sorted by day
fetch_bars(resp) ==
    IF resp.status # 200
    THEN [raised |-> TRUE, df |-> EmptyFrame,
          out |-> HTTPException(400, "Failed to fetch bars", <<>>, <<>>)]
    ELSE IF resp.data.rows = <<>>
    THEN [raised |-> TRUE, df |-> EmptyFrame,
          out |-> HTTPException(400, "No bars returned (empty dataset)", <<>>, <<>>)]
    ELSE IF ~HasColumn(resp.data, "close")
    THEN [raised |-> TRUE, df |-> EmptyFrame,
          out |-> HTTPException(400, "Bars response missing 'close'", <<>>, <<>>)]
    ELSE [raised |-> FALSE, df |-> sort_values_day(resp.data), out |-> NoOutcome]

\* model.predict_proba([x]) succeeds: the scaler of the pipeline accepts a
\* row of the width it was fitted on whose values are all finite
predict_proba_ok(model, x) ==
    /\ Len(x) = model.n_features
    /\ \A i \in 1..Len(x) : x[i][1] \in {"num", "sqrt"}

\* serve.py predict from engineer_features on: the vector picked from the
\* last row, if any, and the response.  The ValueError of predict_proba is
\* not caught, so the request ends as a bare 500
predict_answer(model, feature_columns, df) ==
    Let1(engineer_features(df), LAMBDA df_feat :
        IF Len(df_feat.rows) < 1
        THEN [as_of |-> 0, x |-> <<>>,
              out |-> HTTPException(400, "Not enough bars after feature engineering", <<>>, <<>>)]
        ELSE
            Let1(pick_latest_row_features(df_feat, feature_columns), LAMBDA picked :
                IF picked.raised
                THEN [as_of |-> 0, x |-> <<>>,
                      out |-> HTTPException(500, "Feature mismatch", <<>>, picked.missing)]
                ELSE IF ~predict_proba_ok(model, picked.x)
                THEN [as_of |-> picked.as_of, x |-> picked.x,
                      out |-> HTTPException(500, "Internal Server Error", <<>>, <<>>)]
                ELSE [as_of |-> picked.as_of, x |-> picked.x,
                      out |-> Outcome(200, "PredictResponse", <<>>, <<>>,
                                      picked.as_of, picked.x)]))

\* answers of the bar source
NoCloseBars ==
    [columns |-> <<"day", "volume">>, rows |-> <<[day |-> Fl(1), volume |-> Fl(1)]>>]

BarResponses ==
    { [status |-> 503, data |-> EmptyFrame],
      [status |-> 200, data |-> EmptyFrame],
      [status |-> 200, data |-> NoCloseBars],
      [status |-> 200, data |-> BarsOf(5, 1, 1, 1, 1, 1, 1)],
      [status |-> 200, data |-> BarsOf(12, 1, 0, -1, 1, 2, 1)],
      [status |-> 200, data |-> BarsOf(12, 0, 1, 1, 1, 0, 0)],
      [status |-> 200, data |-> BarsOf(12, -1, -1, 1, 0, 0, 1)] }

\* symbols named by training runs and by requests
Symbols == { <<"a">>, <<"A", "_", "B">> }

\* explicit model_path values of requests; <<>> stands for none given
RequestPaths == { <<>>, model_path_of(<<"A">>, strftime(0)) }

Trainers == {"t1", "t2"}
Readers == {"p1"}

\* the bar source has not been asked
NoResponse == [status |-> 0, data |-> EmptyFrame]

\* the locals of predict before its first statement
NoLocals ==
    [symbol |-> <<>>, latest |-> FALSE, model_path |-> <<>>,
     model |-> [save |-> -1, n_features |-> 0],
     meta_save |-> -1, meta |-> <<>>, resp |-> NoResponse, df |-> EmptyFrame,
     as_of |-> 0, x |-> <<>>, out |-> NoOutcome]

----------------------------------------------------------------------------
(* Initial conditions of the parts a specification does not exercise *)

FeatIdle ==
    /\ raw = EmptyFrame
    /\ feat_train = EmptyFrame
    /\ feat_serve = EmptyFrame
    /\ built = FALSE
    /\ served = FALSE

SplitIdle ==
    /\ n_samples = 0
    /\ fold = 0
    /\ train_idx = {}
    /\ test_idx = {}
    /\ prev_train = {}
    /\ prev_test = {}
    /\ split_err = FALSE

StoreIdle ==
    /\ clock = 0
    /\ models_dir = FALSE
    /\ files = <<>>
    /\ saves = <<>>
    /\ trun = [t \in Trainers |-> 0]

PredIdle ==
    /\ rpc = [p \in Readers |-> "idle"]
    /\ rloc = [p \in Readers |-> NoLocals]

----------------------------------------------------------------------------
(* SpecFeat: the feature builders applied to bounded bar frames *)

InitFeat ==
    /\ raw \in BarFrames
    /\ feat_train = EmptyFrame
    /\ feat_serve = EmptyFrame
    /\ built = FALSE
    /\ served = FALSE
    /\ SplitIdle /\ StoreIdle /\ PredIdle

\* train.py main: feat = build_features(raw)
BuildFeatures ==
    /\ ~built
    /\ feat_train' = build_features(raw)
    /\ built' = TRUE
    /\ UNCHANGED <<raw, feat_serve, served>>
    /\ UNCHANGED <<splitVars, storeVars, predVars>>

\* serve.py predict: df_feat = engineer_features(df)
EngineerFeatures ==
    /\ ~served
    /\ feat_serve' = engineer_features(raw)
    /\ served' = TRUE
    /\ UNCHANGED <<raw, feat_train, built>>
    /\ UNCHANGED <<splitVars, storeVars, predVars>>

NextFeat == BuildFeatures \/ EngineerFeatures

SpecFeat == InitFeat /\ [][NextFeat]_vars

----------------------------------------------------------------------------
(* SpecSplit: the fold loop of train_timeseries_model *)

InitSplit ==
    /\ n_samples \in 0..MaxRows
    /\ fold = 0
    /\ train_idx = {}
    /\ test_idx = {}
    /\ prev_train = {}
    /\ prev_test = {}
    /\ split_err = FALSE
    /\ FeatIdle /\ StoreIdle /\ PredIdle

\* tss.split(X) rejects a frame too short for 5 folds
SplitRaise ==
    /\ fold = 0
    /\ ~split_err
    /\ split_raises(n_samples)
    /\ split_err' = TRUE
    /\ UNCHANGED <<n_samples, fold, train_idx, test_idx, prev_train, prev_test>>
    /\ UNCHANGED <<featVars, storeVars, predVars>>

\* one iteration of `for fold, (train_idx, test_idx) in enumerate(tss.split(X), start=1)`
NextFold ==
    /\ ~split_raises(n_samples)
    /\ fold < n_splits
    /\ fold' = fold + 1
    /\ train_idx' = TimeSeriesSplit(n_samples)[fold + 1].train
    /\ test_idx' = TimeSeriesSplit(n_samples)[fold + 1].test
    /\ prev_train' = train_idx
    /\ prev_test' = test_idx
    /\ UNCHANGED <<n_samples, split_err>>
    /\ UNCHANGED <<featVars, storeVars, predVars>>

NextSplit == SplitRaise \/ NextFold

SpecSplit == InitSplit /\ [][NextSplit]_vars

----------------------------------------------------------------------------
(* Spec: training runs and /predict requests sharing the models directory *)

Init == FeatIdle /\ SplitIdle /\ StoreIdle /\ PredIdle

\* the wall clock moves on by one second
Tick ==
    /\ clock < MaxClock
    /\ clock' = clock + 1
    /\ UNCHANGED <<models_dir, files, saves, trun>>
    /\ UNCHANGED <<featVars, splitVars, predVars>>

\* train.py main, raw = fetch_daily_bars(...): the bar source answers the
\* request of a run that has just started; if fetch_daily_bars raises the
\* process ends
TrainFetch(t) ==
    /\ trun[t] = 0
    /\ Len(saves) < MaxRuns
    /\ \E symbol \in Symbols, resp \in TrainResponses :
          LET got == fetch_daily_bars(resp)
          IN  IF got.raised = ""
              THEN /\ saves' = Append(saves, [symbol |-> upper(symbol), ts |-> <<>>,
                                              stage |-> "fetched", raw |-> got.df])
                   /\ trun' = [trun EXCEPT ![t] = Len(saves) + 1]
              ELSE /\ saves' = Append(saves, [symbol |-> upper(symbol), ts |-> <<>>,
                                              stage |-> "raised", raw |-> EmptyFrame])
                   /\ UNCHANGED trun
    /\ UNCHANGED <<clock, models_dir, files>>
    /\ UNCHANGED <<featVars, splitVars, predVars>>

\* train.py main, build_features and train_timeseries_model: if either
\* raises the process ends
TrainFit(t) ==
    /\ trun[t] # 0
    /\ saves[trun[t]].stage = "fetched"
    /\ IF TrainOutcome[saves[trun[t]].raw] = "ok"
       THEN /\ saves' = [saves EXCEPT ![trun[t]].stage = "trained"]
            /\ UNCHANGED trun
       ELSE /\ saves' = [saves EXCEPT ![trun[t]].stage = "raised"]
            /\ trun' = [trun EXCEPT ![t] = 0]
    /\ UNCHANGED <<clock, models_dir, files>>
    /\ UNCHANGED <<featVars, splitVars, predVars>>

\* train.py main: os.makedirs("ml/models", exist_ok=True), then the clock is
\* read and model_path and meta_path are derived from it
TrainName(t) ==
    /\ trun[t] # 0
    /\ saves[trun[t]].stage = "trained"
    /\ models_dir' = TRUE
    /\ saves' = [saves EXCEPT ![trun[t]].ts = strftime(clock),
                              ![trun[t]].stage = "named"]
    /\ UNCHANGED <<clock, files, trun>>
    /\ UNCHANGED <<featVars, splitVars, predVars>>

\* joblib.dump(result["model"], model_path) opens the file for writing: the
\* file is created, or emptied if it is there already
DumpModelOpen(t) ==
    /\ trun[t] # 0
    /\ saves[trun[t]].stage = "named"
    /\ files' = write_file(files, model_path_of(saves[trun[t]].symbol, saves[trun[t]].ts),
                           Truncated(trun[t]))
    /\ saves' = [saves EXCEPT ![trun[t]].stage = "dumping"]
    /\ UNCHANGED <<clock, models_dir, trun>>
    /\ UNCHANGED <<featVars, splitVars, predVars>>

\* joblib.dump has written the pickled pipeline and closed the file
DumpModelClose(t) ==
    /\ trun[t] # 0
    /\ saves[trun[t]].stage = "dumping"
    /\ files' = write_file(files, model_path_of(saves[trun[t]].symbol, saves[trun[t]].ts),
                           ModelFile(trun[t], Len(feature_cols)))
    /\ saves' = [saves EXCEPT ![trun[t]].stage = "dumped"]
    /\ UNCHANGED <<clock, models_dir, trun>>
    /\ UNCHANGED <<featVars, splitVars, predVars>>

\* open(meta_path, "w"): the file is created, or emptied if it is there
\* already; what json.dump writes stays in the buffer
WriteMetaOpen(t) ==
    /\ trun[t] # 0
    /\ saves[trun[t]].stage = "dumped"
    /\ files' = write_file(files, meta_path_of(saves[trun[t]].symbol, saves[trun[t]].ts),
                           Truncated(trun[t]))
    /\ saves' = [saves EXCEPT ![trun[t]].stage = "writing"]
    /\ UNCHANGED <<clock, models_dir, trun>>
    /\ UNCHANGED <<featVars, splitVars, predVars>>

\* the with block closes meta_path: the document reaches the file; the run
\* ends
WriteMetaClose(t) ==
    /\ trun[t] # 0
    /\ saves[trun[t]].stage = "writing"
    /\ files' = write_file(files, meta_path_of(saves[trun[t]].symbol, saves[trun[t]].ts),
                           MetaFile(trun[t], meta_of(saves[trun[t]].symbol)))
    /\ saves' = [saves EXCEPT ![trun[t]].stage = "done"]
    /\ trun' = [trun EXCEPT ![t] = 0]
    /\ UNCHANGED <<clock, models_dir>>
    /\ UNCHANGED <<featVars, splitVars, predVars>>

Respond(p, out) ==
    /\ rloc' = [rloc EXCEPT ![p].out = out]
    /\ rpc' = [rpc EXCEPT ![p] = "done"]

\* predict: model_path = req.model_path or latest_model_for_symbol(symbol);
\* the FileNotFoundError of the lookup is not caught, so the request ends as
\* a bare 500
PredictResolve(p) ==
    /\ rpc[p] \in {"idle", "done"}
    /\ \E sym \in Symbols, mp \in RequestPaths :
          LET symbol == upper(sym)
              loc    == [NoLocals EXCEPT !.symbol = symbol, !.latest = (mp = <<>>)]
          IN  IF mp # <<>>
              THEN /\ rloc' = [rloc EXCEPT ![p] = [loc EXCEPT !.model_path = mp]]
                   /\ rpc' = [rpc EXCEPT ![p] = "resolved"]
              ELSE IF latest_candidates(files, symbol) = {}
              THEN /\ rloc' = [rloc EXCEPT ![p] =
                                 [loc EXCEPT !.out =
                                     HTTPException(500, "Internal Server Error", <<>>, <<>>)]]
                   /\ rpc' = [rpc EXCEPT ![p] = "done"]
              ELSE /\ rloc' = [rloc EXCEPT ![p] =
                                 [loc EXCEPT !.model_path =
                                     latest_model_for_symbol(files, symbol)]]
                   /\ rpc' = [rpc EXCEPT ![p] = "resolved"]
    /\ UNCHANGED <<featVars, splitVars, storeVars>>

\* predict: model = joblib.load(model_path); a file that is missing, or that
\* its writer has not finished, cannot be loaded
PredictLoadModel(p) ==
    /\ rpc[p] = "resolved"
    /\ IF ~exists(files, rloc[p].model_path)
       THEN Respond(p, HTTPException(500, "Failed to load model/meta: No such file or directory",
                                     rloc[p].model_path, <<>>))
       ELSE IF ~files[rloc[p].model_path].complete
       THEN Respond(p, HTTPException(500, "Failed to load model/meta: EOFError",
                                     rloc[p].model_path, <<>>))
       ELSE /\ rloc' = [rloc EXCEPT ![p].model =
                           [save       |-> files[rloc[p].model_path].save,
                            n_features |-> files[rloc[p].model_path].n_features]]
            /\ rpc' = [rpc EXCEPT ![p] = "model_loaded"]
    /\ UNCHANGED <<featVars, splitVars, storeVars>>

\* predict: meta = load_meta_for_model(model_path); json.load of a file that
\* its writer has opened and not yet closed finds no document
PredictLoadMeta(p) ==
    /\ rpc[p] = "model_loaded"
    /\ LET meta_path == meta_path_for(rloc[p].model_path)
       IN  IF ~exists(files, meta_path)
           THEN Respond(p, HTTPException(500, "Failed to load model/meta: Meta file not found",
                                         meta_path, <<>>))
           ELSE IF ~files[meta_path].complete
           THEN Respond(p, HTTPException(500, "Failed to load model/meta: Expecting value",
                                         meta_path, <<>>))
           ELSE /\ rloc' = [rloc EXCEPT ![p].meta = json_load(files[meta_path].doc),
                                        ![p].meta_save = files[meta_path].save]
                /\ rpc' = [rpc EXCEPT ![p] = "meta_loaded"]
    /\ UNCHANGED <<featVars, splitVars, storeVars>>

\* predict: feature_cols = meta.get("feature_columns") and the check on it
PredictSchema(p) ==
    /\ rpc[p] = "meta_loaded"
    /\ IF schema_missing(rloc[p].meta)
       THEN Respond(p, HTTPException(500, "Meta JSON missing 'feature_columns'", <<>>, <<>>))
       ELSE /\ rpc' = [rpc EXCEPT ![p] = "schema_ok"]
            /\ UNCHANGED rloc
    /\ UNCHANGED <<featVars, splitVars, storeVars>>

\* predict: df = fetch_bars(...), the bar source answers
PredictFetch(p) ==
    /\ rpc[p] = "schema_ok"
    /\ \E resp \in BarResponses :
          LET got == fetch_bars(resp)
          IN  IF got.raised
              THEN /\ rloc' = [rloc EXCEPT ![p].resp = resp, ![p].out = got.out]
                   /\ rpc' = [rpc EXCEPT ![p] = "done"]
              ELSE /\ rloc' = [rloc EXCEPT ![p].resp = resp, ![p].df = got.df]
                   /\ rpc' = [rpc EXCEPT ![p] = "fetched"]
    /\ UNCHANGED <<featVars, splitVars, storeVars>>

\* predict from df_feat = engineer_features(df) to the response
PredictAnswer(p) ==
    /\ rpc[p] = "fetched"
    /\ LET ans == predict_answer(rloc[p].model, rloc[p].meta["feature_columns"], rloc[p].df)
       IN  rloc' = [rloc EXCEPT ![p].as_of = ans.as_of, ![p].x = ans.x, ![p].out = ans.out]
    /\ rpc' = [rpc EXCEPT ![p] = "done"]
    /\ UNCHANGED <<featVars, splitVars, storeVars>>

\* The metadata a run writes has no "feature_columns" key, and the
\* directory starts empty, so no request gets past PredictSchema here;
\* PredictFetch and PredictAnswer are never enabled and are exercised by
\* SpecPredict below.
Next ==
    \/ Tick
    \/ \E t \in Trainers : TrainFetch(t)
    \/ \E t \in Trainers : TrainFit(t)
    \/ \E t \in Trainers : TrainName(t)
    \/ \E t \in Trainers : DumpModelOpen(t)
    \/ \E t \in Trainers : DumpModelClose(t)
    \/ \E t \in Trainers : WriteMetaOpen(t)
    \/ \E t \in Trainers : WriteMetaClose(t)
    \/ \E p \in Readers : PredictResolve(p)
    \/ \E p \in Readers : PredictLoadModel(p)
    \/ \E p \in Readers : PredictLoadMeta(p)
    \/ \E p \in Readers : PredictSchema(p)

Spec == Init /\ [][Next]_vars

----------------------------------------------------------------------------
(* SpecPredict: /predict as a function of the models directory, the        *)
(* request and the bar source's answer                                     *)

Schemas ==
    { <<"ret_1d", "ma_5">>, <<"rsi_14", "ret_1d", "obv">>, <<>>, feature_cols }

\* metadata documents with the schema under the key serve.py reads, each
\* with the widths of the pipeline stored beside it: the width of the schema,
\* or the width train.py fits
Artifacts(symbol) ==
    { [doc |-> meta_of(symbol), n_features |-> Len(feature_cols)] }
    \cup UNION { { [doc |-> meta_with_schema(symbol, S), n_features |-> n] :
                      n \in {Len(S), Len(feature_cols)} \ {0} } : S \in Schemas }

\* what the directory may hold for one (symbol, tag): nothing, a model file
\* being written, the model file alone, the model file and a metadata file
\* being written, or the model file and a metadata file
SlotFiles(symbol, ts) ==
    {<<>>}
    \cup { write_file(<<>>, model_path_of(symbol, ts), Truncated(0)) }
    \cup { write_file(<<>>, model_path_of(symbol, ts), ModelFile(0, Len(feature_cols))) }
    \cup { write_file(write_file(<<>>, model_path_of(symbol, ts),
                                 ModelFile(0, Len(feature_cols))),
                      meta_path_of(symbol, ts), Truncated(0)) }
    \cup { write_file(write_file(<<>>, model_path_of(symbol, ts), ModelFile(0, a.n_features)),
                      meta_path_of(symbol, ts), MetaFile(0, a.doc)) :
           a \in Artifacts(symbol) }

Merge(f, g) == [k \in DOMAIN f \cup DOMAIN g |-> IF k \in DOMAIN f THEN f[k] ELSE g[k]]

DirInputs ==
    { Merge(a, b) : a \in SlotFiles(<<"A">>, strftime(0)),
                    b \in SlotFiles(<<"A", "_", "B">>, strftime(0)) }

InitPredict ==
    /\ FeatIdle /\ SplitIdle /\ PredIdle
    /\ clock = 0
    /\ models_dir = TRUE
    /\ saves = <<>>
    /\ trun = [t \in Trainers |-> 0]
    /\ files \in DirInputs

NextPredict ==
    \/ \E p \in Readers : PredictResolve(p)
    \/ \E p \in Readers : PredictLoadModel(p)
    \/ \E p \in Readers : PredictLoadMeta(p)
    \/ \E p \in Readers : PredictSchema(p)
    \/ \E p \in Readers : PredictFetch(p)
    \/ \E p \in Readers : PredictAnswer(p)

SpecPredict == InitPredict /\ [][NextPredict]_vars

----------------------------------------------------------------------------
(* Properties *)

FeatureNames ==
    {"ret_1d", "ma_5", "ma_10", "close_over_ma5", "close_over_ma10",
     "vol_5", "vol_10", "volchg_1d"}

\* position in raw of the bar a feature row was derived from
DayOf(r) == r["day"][2]

NBars == Len(raw.rows)

Max0(x) == IF x < 0 THEN 0 ELSE x

\* C5: in every fold every test index is greater than every train index, the
\* train set is a non-empty prefix 0..m of the rows that strictly grows from
\* fold to fold, and the test window is non-empty and lies wholly after the
\* previous fold's test window.
C5_WalkForwardLeakageFree ==
    fold >= 1 =>
        /\ \A i \in train_idx : \A j \in test_idx : i < j
        /\ train_idx # {} /\ test_idx # {}
        /\ \E m \in 0..n_samples : train_idx = 0..m
        /\ test_idx \subseteq 0..(n_samples - 1)
        /\ fold >= 2 =>
              /\ prev_train \subseteq train_idx /\ prev_train # train_idx
              /\ prev_test \cap test_idx = {}
              /\ \A i \in prev_test : \A j \in test_idx : i < j

C5_Witness ==
    fold = n_splits /\ Cardinality(test_idx) >= 2 /\ Cardinality(prev_test) >= 2

\* C6: every row retained by build_features has a following bar in the input
\* and its target_up_tomorrow is 1 exactly when that bar closes higher.
C6_LabelsCorrectFinalBarDropped ==
    built =>
        \A i \in 1..Len(feat_train.rows) :
            LET t == DayOf(feat_train.rows[i])
            IN  /\ t + 1 <= NBars
                /\ feat_train.rows[i]["target_up_tomorrow"] =
                      (IF FGt(raw.rows[t + 1]["close"], raw.rows[t]["close"])
                       THEN Fl(1) ELSE Fl(0))

\* C7: engineer_features returns at most n - 10 rows and build_features at
\* most n - 11 rows; 10 or fewer bars give zero rows in both.
C7_RowCountLaw ==
    /\ served => Len(feat_serve.rows) <= Max0(NBars - 10)
    /\ built => Len(feat_train.rows) <= Max0(NBars - 11)

\* C8, the agreement of the two builders: on every day retained by both,
\* build_features and engineer_features give the same value to every feature
\* column.  The other conjunct of C8, that a builder run twice on one input
\* returns the same output, is not stated: each builder works on df.copy()
\* and reads nothing else, so it is an operator of its argument, and two
\* evaluations of one operator agree whatever the operator is.
C8_TrainServeConsistent ==
    (built /\ served) =>
        \A i \in 1..Len(feat_train.rows) : \A j \in 1..Len(feat_serve.rows) :
            DayOf(feat_train.rows[i]) = DayOf(feat_serve.rows[j]) =>
                \A c \in FeatureNames :
                    feat_train.rows[i][c] = feat_serve.rows[j][c]

C8_Witness ==
    /\ built /\ served
    /\ Len(feat_train.rows) >= 2
    /\ \A i \in 1..Len(feat_train.rows) :
          \E j \in 1..Len(feat_serve.rows) :
              DayOf(feat_train.rows[i]) = DayOf(feat_serve.rows[j])
    /\ feat_train.rows[2]["vol_10"] # <<"sqrt", 0, 1>>

IsModelFile(f) == fnmatch(f, <<"*">> \o ModelSuffix)

\* run ids that have created their model file for the symbol
SavedFor(symbol) ==
    { i \in 1..Len(saves) :
        /\ saves[i].symbol = upper(symbol)
        /\ saves[i].stage \in {"dumping", "dumped", "writing", "done"} }

\* C1: a request that loads the metadata a training run wrote obtains the
\* run's ordered schema and does not find the schema missing.
C1_SchemaRoundTrip ==
    \A p \in Readers :
        (rpc[p] \in {"meta_loaded", "schema_ok", "fetched", "done"}
            /\ rloc[p].meta_save >= 1) =>
            /\ ~schema_missing(rloc[p].meta)
            /\ rloc[p].meta["feature_columns"] = feature_cols
            /\ rloc[p].out.kind # "Meta JSON missing 'feature_columns'"

\* C2: the lookup for a symbol finds nothing exactly when no artifact has
\* been saved for that symbol, and otherwise returns an artifact saved for
\* that symbol whose version tag is the greatest among them.
C2_LatestIsGreatestOwnTag ==
    \A sym \in Symbols :
        /\ (latest_candidates(files, sym) = {}) <=> (SavedFor(sym) = {})
        /\ SavedFor(sym) # {} =>
              \E i \in SavedFor(sym) :
                  /\ latest_model_for_symbol(files, sym) = model_path_of(sym, saves[i].ts)
                  /\ \A j \in SavedFor(sym) : ~StrLt(saves[i].ts, saves[j].ts)

\* C3: every model file a request can select is complete and has its
\* metadata file present and complete, written by the same save.
C3_PairWrittenAtomically ==
    \A f \in DOMAIN files :
        IsModelFile(f) =>
            /\ files[f].complete
            /\ exists(files, meta_path_for(f))
            /\ files[meta_path_for(f)].complete
            /\ files[meta_path_for(f)].save = files[f].save

\* C4: runs for one symbol get distinct version tags, no file of a completed
\* save is overwritten, and each symbol has as many model files as saves
\* that wrote one.
C4_WriteOnceUniqueTags ==
    /\ \A i, j \in 1..Len(saves) :
          (i # j /\ saves[i].ts # <<>> /\ saves[j].ts # <<>>
                 /\ saves[i].symbol = saves[j].symbol) => saves[i].ts # saves[j].ts
    /\ \A i \in 1..Len(saves) :
          saves[i].stage = "done" =>
              /\ files[model_path_of(saves[i].symbol, saves[i].ts)].save = i
              /\ files[meta_path_of(saves[i].symbol, saves[i].ts)].save = i
    /\ \A sym \in Symbols :
          Cardinality({ f \in DOMAIN files :
                          IsModelFile(f) /\ saves[files[f].save].symbol = upper(sym) })
            = Cardinality(SavedFor(sym))

\* the feature frame a finished request derived from the bars it fetched
DerivedFrame ==
    [r \in { x \in BarResponses : x.status = 200 /\ HasColumn(x.data, "close") } |->
        engineer_features(sort_values_day(r.data))]

DerivedOf(p) == DerivedFrame[rloc[p].resp]

\* the request reached the row picker: schema loaded, bars fetched, >= 1 row
ReachedPicker(p) ==
    /\ rpc[p] = "done"
    /\ rloc[p].resp.status = 200
    /\ ~schema_missing(rloc[p].meta)
    /\ HasColumn(rloc[p].resp.data, "close")
    /\ Len(DerivedOf(p).rows) >= 1

AbsentColumns(p) ==
    LET S == rloc[p].meta["feature_columns"]
    IN  { S[i] : i \in 1..Len(S) } \
        { DerivedOf(p).columns[i] : i \in 1..Len(DerivedOf(p).columns) }

\* C9: with a schema S loaded and at least one derived row, the request
\* fails with the feature-mismatch error exactly when a column of S is not a
\* derived column; the error names exactly those columns and neither a
\* vector nor a prediction is produced; otherwise the vector handed to the
\* model is the last derived row in the order of S, and so is the vector of
\* the prediction, if one is returned.
C9_SchemaCheckAtPredict ==
    \A p \in Readers :
        ReachedPicker(p) =>
            LET S    == rloc[p].meta["feature_columns"]
                out  == rloc[p].out
                last == DerivedOf(p).rows[Len(DerivedOf(p).rows)]
            IN  /\ (out.kind = "Feature mismatch") <=> (AbsentColumns(p) # {})
                /\ AbsentColumns(p) # {} =>
                      /\ out.status # 200
                      /\ out.x = <<>>
                      /\ rloc[p].x = <<>>
                      /\ { out.missing[i] : i \in 1..Len(out.missing) } = AbsentColumns(p)
                /\ AbsentColumns(p) = {} =>
                      /\ Len(rloc[p].x) = Len(S)
                      /\ \A i \in 1..Len(S) : rloc[p].x[i] = last[S[i]]
                      /\ rloc[p].as_of = last["day"][2]
                      /\ out.status = 200 =>
                            out.x = rloc[p].x /\ out.as_of = rloc[p].as_of

C9_Witness ==
    \E p \in Readers :
        /\ ReachedPicker(p)
        /\ rloc[p].out.kind = "Feature mismatch"
        /\ Cardinality(AbsentColumns(p)) = 2
        /\ Len(rloc[p].meta["feature_columns"]) = 3

\* the vector of a request that reached the picker with every column of its
\* schema derived
VectorOf(p) ==
    LET S    == rloc[p].meta["feature_columns"]
        last == DerivedOf(p).rows[Len(DerivedOf(p).rows)]
    IN  [i \in 1..Len(S) |-> last[S[i]]]

\* the first failure condition of a finished request, from its inputs
FailureOf(p) ==
    LET loc == rloc[p]
        own == { f \in DOMAIN files : f = model_path_of(loc.symbol, strftime(0)) }
        path == IF loc.latest THEN model_path_of(loc.symbol, strftime(0)) ELSE loc.model_path
    IN  IF loc.latest /\ own = {} THEN "ArtifactNotFound"
        ELSE IF ~loc.latest /\ ~exists(files, loc.model_path) THEN "ArtifactNotFound"
        ELSE IF ~files[path].complete THEN "ArtifactCorrupt"
        ELSE IF ~exists(files, meta_path_for(path)) THEN "ArtifactCorrupt"
        ELSE IF ~files[meta_path_for(path)].complete THEN "ArtifactCorrupt"
        ELSE IF schema_missing(json_load(files[meta_path_for(path)].doc)) THEN "ArtifactCorrupt"
        ELSE IF loc.resp.status # 200 THEN "DataFetchError"
        ELSE IF loc.resp.data.rows = <<>> THEN "EmptyBarRange"
        ELSE IF ~HasColumn(loc.resp.data, "close") THEN "DataFetchError"
        ELSE IF Len(DerivedOf(p).rows) < 1 THEN "InsufficientData"
        ELSE IF AbsentColumns(p) # {} THEN "SchemaMismatch"
        ELSE IF ~predict_proba_ok(files[path], VectorOf(p)) THEN "ModelRejectsInput"
        ELSE "none"

\* the responses that report each failure condition
ErrorKinds ==
    [ArtifactNotFound  |-> {"Internal Server Error",
                            "Failed to load model/meta: No such file or directory"},
     ArtifactCorrupt   |-> {"Failed to load model/meta: EOFError",
                            "Failed to load model/meta: Meta file not found",
                            "Failed to load model/meta: Expecting value",
                            "Meta JSON missing 'feature_columns'"},
     DataFetchError    |-> {"Failed to fetch bars", "Bars response missing 'close'"},
     EmptyBarRange     |-> {"No bars returned (empty dataset)"},
     InsufficientData  |-> {"Not enough bars after feature engineering"},
     SchemaMismatch    |-> {"Feature mismatch"},
     ModelRejectsInput |-> {"Internal Server Error"}]

\* C10: a finished request whose inputs meet a failure condition answers
\* with an error of that condition's own kind, which is the kind of no
\* other condition, and with no prediction; a request whose inputs meet
\* none answers with a prediction.
C10_DistinctErrorKinds ==
    \A p \in Readers :
        rpc[p] = "done" =>
            IF FailureOf(p) = "none"
            THEN rloc[p].out.status = 200
            ELSE /\ rloc[p].out.status # 200
                 /\ rloc[p].out.kind \in ErrorKinds[FailureOf(p)]
                 /\ \A c \in DOMAIN ErrorKinds \ {FailureOf(p)} :
                        rloc[p].out.kind \notin ErrorKinds[c]

====
